---- MODULE Spec2Model ----
(***************************************************************************)
(* Model of starling_waterfall: the Starling API client (StarlingAPI), the *)
(* api_request wrapper, the pydantic records (Amount, RecurrenceRule,      *)
(* RecurringTransfer, SavingsSpace) and the Application run.               *)
(*                                                                         *)
(* JSON values and Python values are tagged records:                       *)
(*   [t |-> "null"]                 None / null                            *)
(*   [t |-> "int",  v |-> n]        an integer                             *)
(*   [t |-> "str",  v |-> s]        a string                               *)
(*   [t |-> "obj",  v |-> r]        a dict, r a record field -> value      *)
(*   [t |-> "list", v |-> q]        a list, q a sequence of values         *)
(* A validated pydantic instance is a record with a cls field.             *)
(*                                                                         *)
(* Spec is the program: Application(...) and then run(). SpecCalls adds a  *)
(* client that calls the public refresh_spaces() itself.                   *)
(***************************************************************************)
EXTENDS Integers, Sequences, FiniteSets, TLC

\* ------------------------------------------------------------------ bounds
\* Most goals the bank holds.
MaxGoals == 2
\* Most direct calls of refresh_spaces a client of Application makes (SpecCalls).
MaxCalls == 2

\* ------------------------------------------------------------- JSON values
None == [t |-> "null"]
JInt(n) == [t |-> "int", v |-> n]
JStr(s) == [t |-> "str", v |-> s]
JObj(r) == [t |-> "obj", v |-> r]
JList(q) == [t |-> "list", v |-> q]

IsJson(x) == "t" \in DOMAIN x
IsNone(x) == IsJson(x) /\ x.t = "null"
IsDict(x) == IsJson(x) /\ x.t = "obj"
IsInstance(x, cls) == "cls" \in DOMAIN x /\ x.cls = cls

\* dict.get(key): the value, or None when the key is absent.
DictGet(d, key) == IF key \in DOMAIN d.v THEN d.v[key] ELSE None

\* dict[key] = value
DictSet(d, key, value) ==
    JObj([k \in DOMAIN d.v \cup {key} |-> IF k = key THEN value ELSE d.v[k]])

\* Python truthiness of what the wrappers return: None is false, a dict with
\* keys is true, a list is true when it has elements, a model instance is true.
Truthy(x) ==
    IF ~IsJson(x) THEN TRUE
    ELSE IF x.t = "null" THEN FALSE
    ELSE IF x.t = "list" THEN Len(x.v) > 0
    ELSE IF x.t = "obj" THEN DOMAIN x.v # {}
    ELSE IF x.t = "int" THEN x.v # 0
    ELSE x.v # ""

\* --------------------------------------------------- pydantic field checks
Ok(val) == [ok |-> TRUE, val |-> val]
Fail(field) == [ok |-> FALSE, err |-> field]

\* The strings pydantic's lax mode reads as an integer.
DigitStrings == "7" :> 7

\* A field declared `str`: a string only (an int is not coerced).
ValidStr(x) ==
    IF IsJson(x) /\ x.t = "str" THEN Ok(x.v) ELSE Fail("str")

\* A field declared `int`: an int, or (lax mode) a string of digits.
ValidInt(x) ==
    IF IsJson(x) /\ x.t = "int" THEN Ok(x.v)
    ELSE IF IsJson(x) /\ x.t = "str" /\ x.v \in DOMAIN DigitStrings
         THEN Ok(DigitStrings[x.v])
    ELSE Fail("int")

\* A field declared Optional[str] = None, given the dict and the key.
ValidOptStr(d, key) ==
    IF key \notin DOMAIN d.v \/ IsNone(d.v[key]) THEN Ok(None)
    ELSE IF ValidStr(d.v[key]).ok THEN Ok(d.v[key])
    ELSE Fail(key)

\* A field declared Optional[int] = None.
ValidOptInt(d, key) ==
    IF key \notin DOMAIN d.v \/ IsNone(d.v[key]) THEN Ok(None)
    ELSE IF ValidInt(d.v[key]).ok THEN Ok(JInt(ValidInt(d.v[key]).val))
    ELSE Fail(key)

\* class Amount(BaseModel): currency: str = "GBP"; minorUnits: int
Amount_model_validate(x) ==
    IF IsInstance(x, "Amount") THEN Ok(x)
    ELSE IF ~IsDict(x) THEN Fail("Amount")
    ELSE IF "currency" \in DOMAIN x.v /\ ~ValidStr(x.v["currency"]).ok
         THEN Fail("currency")
    ELSE IF "minorUnits" \notin DOMAIN x.v \/ ~ValidInt(x.v["minorUnits"]).ok
         THEN Fail("minorUnits")
    ELSE Ok([cls |-> "Amount",
             currency |-> IF "currency" \in DOMAIN x.v
                          THEN x.v["currency"].v ELSE "GBP",
             minorUnits |-> ValidInt(x.v["minorUnits"]).val])

\* class RecurrenceRule(BaseModel): startDate: str; frequency: str = "MONTHLY"
RecurrenceRule_model_validate(x) ==
    IF IsInstance(x, "RecurrenceRule") THEN Ok(x)
    ELSE IF ~IsDict(x) THEN Fail("RecurrenceRule")
    ELSE IF "startDate" \notin DOMAIN x.v \/ ~ValidStr(x.v["startDate"]).ok
         THEN Fail("startDate")
    ELSE IF "frequency" \in DOMAIN x.v /\ ~ValidStr(x.v["frequency"]).ok
         THEN Fail("frequency")
    ELSE Ok([cls |-> "RecurrenceRule",
             startDate |-> x.v["startDate"].v,
             frequency |-> IF "frequency" \in DOMAIN x.v
                           THEN x.v["frequency"].v ELSE "MONTHLY"])

\* RecurringTransfer's fields checked in declaration order, each nested
\* record already validated.
RecurringTransfer_fields(x, description, rule, amount, reference) ==
    IF ~description.ok THEN Fail("description")
    ELSE IF ~ValidStr(DictGet(x, "transferUid")).ok THEN Fail("transferUid")
    ELSE IF ~rule.ok THEN Fail("recurrenceRule")
    ELSE IF ~amount.ok THEN Fail("currencyAndAmount")
    ELSE IF ~reference.ok THEN Fail("reference")
    ELSE Ok([cls |-> "RecurringTransfer",
             description |-> description.val,
             transferUid |-> x.v["transferUid"].v,
             recurrenceRule |-> rule.val,
             currencyAndAmount |-> amount.val,
             reference |-> reference.val])

\* class RecurringTransfer(BaseModel); fields the class does not declare are
\* ignored (pydantic's default extra = "ignore"); a required field that is
\* absent fails like one of the wrong type.
RecurringTransfer_model_validate(x) ==
    IF ~IsDict(x) THEN Fail("RecurringTransfer")
    ELSE RecurringTransfer_fields(x,
             ValidOptStr(x, "description"),
             RecurrenceRule_model_validate(DictGet(x, "recurrenceRule")),
             Amount_model_validate(DictGet(x, "currencyAndAmount")),
             ValidOptStr(x, "reference"))

\* SavingsSpace's fields checked in declaration order.
SavingsSpace_fields(x, target, totalSaved, savedPercentage) ==
    IF ~ValidStr(DictGet(x, "savingsGoalUid")).ok THEN Fail("savingsGoalUid")
    ELSE IF ~ValidStr(DictGet(x, "name")).ok THEN Fail("name")
    ELSE IF ~target.ok THEN Fail("target")
    ELSE IF ~totalSaved.ok THEN Fail("totalSaved")
    ELSE IF ~savedPercentage.ok THEN Fail("savedPercentage")
    ELSE IF ~ValidStr(DictGet(x, "state")).ok THEN Fail("state")
    ELSE Ok([cls |-> "SavingsSpace",
             savingsGoalUid |-> x.v["savingsGoalUid"].v,
             name |-> x.v["name"].v,
             target |-> target.val,
             totalSaved |-> totalSaved.val,
             savedPercentage |-> savedPercentage.val,
             state |-> x.v["state"].v,
             recurringTransfer |-> None])

\* A field declared Optional[Amount] = None.
ValidOptAmount(d, key) ==
    IF IsNone(DictGet(d, key)) THEN Ok(None)
    ELSE Amount_model_validate(d.v[key])

\* class SavingsSpace(BaseModel)
SavingsSpace_model_validate(x) ==
    IF ~IsDict(x) THEN Fail("SavingsSpace")
    ELSE SavingsSpace_fields(x,
             ValidOptAmount(x, "target"),
             Amount_model_validate(DictGet(x, "totalSaved")),
             ValidOptInt(x, "savedPercentage"))

\* Amount.model_dump()
Amount_model_dump(a) ==
    JObj([currency |-> JStr(a.currency), minorUnits |-> JInt(a.minorUnits)])

\* RecurrenceRule.model_dump() with the frequency not carried over: the
\* declared default is written instead.
RecurrenceRule_model_dump_default(r) ==
    JObj([startDate |-> JStr(r.startDate), frequency |-> JStr("MONTHLY")])

\* RecurrenceRule.model_dump()
RecurrenceRule_model_dump(r) ==
    JObj([startDate |-> JStr(r.startDate), frequency |-> JStr(r.frequency)])

\* RecurringTransfer.model_dump(): every declared field, nested models as
\* dicts, unset optional fields as None.
RecurringTransfer_model_dump(rt) ==
    JObj([description |-> rt.description,
          transferUid |-> JStr(rt.transferUid),
          recurrenceRule |-> RecurrenceRule_model_dump(rt.recurrenceRule),
          currencyAndAmount |-> Amount_model_dump(rt.currencyAndAmount),
          reference |-> rt.reference])

\* class_type.model_validate(x), for the classes transform_childs_class is
\* called with.
model_validate(class_type, x) ==
    IF class_type = "RecurrenceRule" THEN RecurrenceRule_model_validate(x)
    ELSE Amount_model_validate(x)

\* transform_childs_class once the child is known to be present: `made` is
\* class_type.model_validate(parent[child]).
transformed(parent, child, made) ==
    IF made.ok
    THEN [parent |-> DictSet(parent, child, made.val), printed |-> <<>>]
    ELSE [parent |-> parent,
          printed |-> <<[msg |-> "Error transforming", name |-> child]>>]

\* utils.transform_childs_class(parent, child, class_type): the parent dict
\* after the call (the child replaced by the instance when it validates,
\* left as it was when it does not or is absent) and the line printed.
transform_childs_class(parent, child, class_type) ==
    IF child \in DOMAIN parent.v
    THEN transformed(parent, child, model_validate(class_type, parent.v[child]))
    ELSE [parent |-> parent,
          printed |-> <<[msg |-> "not found in parent dictionary", name |-> child]>>]

\* ------------------------------------------------ the bank behind the API
\* What the bank holds is chosen once (Init) and does not change during a run:
\* a balance and at most MaxGoals savings goals, each with or without a
\* recurring transfer. The payloads follow the API's shapes (the fixtures of
\* tests/test_starling_waterfall.py), with small amounts.
UidNames == <<"g1", "g2", "g3", "g4">>
GoalNames == <<"Paris", "Rainy", "Car", "Home">>
TransferUids == <<"t1", "t2", "t3", "t4">>

BalanceShapes == {"b4", "b10", "bad"}
GoalShapes == {"full", "min", "noname", "nosaved"}
TransferShapes == {"none", "full5", "min0", "lax7", "norule", "badamt"}

GBP(n) == JObj([currency |-> JStr("GBP"), minorUnits |-> JInt(n)])

\* GET /accounts/{account}/balance
BalanceJson(shape) ==
    IF shape = "b4"
    THEN JObj([clearedBalance |-> GBP(3), effectiveBalance |-> GBP(4)])
    ELSE IF shape = "b10"
    THEN JObj([clearedBalance |-> GBP(9), effectiveBalance |-> GBP(10)])
    ELSE JObj([clearedBalance |-> GBP(9),
               effectiveBalance |-> JObj([currency |-> JStr("GBP")])])

\* One element of savingsGoalList.
GoalJson(i, shape) ==
    IF shape = "full"
    THEN JObj([savingsGoalUid |-> JStr(UidNames[i]), name |-> JStr(GoalNames[i]),
               target |-> GBP(100), totalSaved |-> GBP(50),
               savedPercentage |-> JInt(50), state |-> JStr("ACTIVE")])
    ELSE IF shape = "min"
    THEN JObj([savingsGoalUid |-> JStr(UidNames[i]), name |-> JStr(GoalNames[i]),
               totalSaved |-> JObj([minorUnits |-> JInt(20)]),
               state |-> JStr("ACTIVE")])
    ELSE IF shape = "noname"
    THEN JObj([savingsGoalUid |-> JStr(UidNames[i]),
               target |-> GBP(100), totalSaved |-> GBP(50),
               savedPercentage |-> JInt(50), state |-> JStr("ACTIVE")])
    ELSE JObj([savingsGoalUid |-> JStr(UidNames[i]), name |-> JStr(GoalNames[i]),
               target |-> GBP(100),
               savedPercentage |-> JInt(50), state |-> JStr("ACTIVE")])

\* GET .../savings-goals/{goalId}/recurring-transfer, for a goal that has one.
TransferJson(i, shape) ==
    IF shape = "full5"
    THEN JObj([transferUid |-> JStr(TransferUids[i]),
               recurrenceRule |-> JObj([startDate |-> JStr("2023-01-01"),
                                        frequency |-> JStr("DAILY"),
                                        interval |-> JInt(2)]),
               currencyAndAmount |-> GBP(5),
               nextPaymentDate |-> JStr("2023-01-01")])
    ELSE IF shape = "min0"
    THEN JObj([transferUid |-> JStr(TransferUids[i]),
               description |-> JStr("pocket"),
               recurrenceRule |-> JObj([startDate |-> JStr("2023-02-01")]),
               currencyAndAmount |-> JObj([minorUnits |-> JInt(0)]),
               reference |-> JStr("ref")])
    ELSE IF shape = "lax7"
    THEN JObj([transferUid |-> JStr(TransferUids[i]),
               recurrenceRule |-> JObj([startDate |-> JStr("2023-03-01"),
                                        frequency |-> JStr("MONTHLY")]),
               currencyAndAmount |-> JObj([currency |-> JStr("GBP"),
                                           minorUnits |-> JStr("7")])])
    ELSE IF shape = "norule"
    THEN JObj([transferUid |-> JStr(TransferUids[i]),
               currencyAndAmount |-> GBP(5)])
    ELSE JObj([transferUid |-> JStr(TransferUids[i]),
               recurrenceRule |-> JObj([startDate |-> JStr("2023-01-01")]),
               currencyAndAmount |-> JObj([currency |-> JStr("GBP"),
                                           minorUnits |-> JStr("abc")])])

\* A goal the bank cannot describe in full has no standing transfer.
BankGoals ==
    {g \in [shape : GoalShapes, rt : TransferShapes] :
        g.shape \in {"noname", "nosaved"} => g.rt = "none"}

Banks ==
    [balance : BalanceShapes,
     goals : UNION {[1..n -> BankGoals] : n \in 0..MaxGoals}]

\* What the server answers: a status and, on 200, a JSON body.
Http200(json) == [status |-> 200, json |-> json]
Http404 == [status |-> 404, json |-> None]

ServerBalance(b) == Http200(BalanceJson(b.balance))

ServerGoals(b) ==
    Http200(JObj([savingsGoalList |->
        JList([i \in 1..Len(b.goals) |-> GoalJson(i, b.goals[i].shape)])]))

ServerTransfer(b, uid) ==
    IF \E i \in 1..Len(b.goals) : UidNames[i] = uid /\ b.goals[i].rt # "none"
    THEN LET i == CHOOSE j \in 1..Len(b.goals) : UidNames[j] = uid
         IN Http200(TransferJson(i, b.goals[i].rt))
    ELSE Http404

\* --------------------------------------------------------- the API client
\* How one HTTP exchange goes: the server's answer arrives, the server (or a
\* proxy) answers with an error status, or the connection fails.
Outcomes == {"ok", "http_error", "network_error"}

Line(msg, name) == [msg |-> msg, name |-> name]

\* utils.api_request.decorator.wrapper: what the wrapped call returns (ret) or
\* raises (exc, "" when it returns), what it prints, and how the exchange went
\* (a 2xx answer, another status, no answer). On a connection failure
\* requests.request raises before `response` is bound, so the handler's
\* print(response.text) raises UnboundLocalError.
wrapper(outcome, answer) ==
    IF outcome = "network_error"
    THEN [exc |-> "UnboundLocalError", ret |-> None, exchange |-> "network_error",
          printed |-> <<Line("API request failed", "")>>]
    ELSE IF outcome = "http_error" \/ answer.status # 200
    THEN [exc |-> "", ret |-> None, exchange |-> "non-2xx",
          printed |-> <<Line("API request failed", ""), Line("response.text", "")>>]
    ELSE [exc |-> "", ret |-> answer.json, exchange |-> "2xx", printed |-> <<>>]

\* One entry of the log of HTTP calls: the operation, the goal it is about,
\* the body sent, how the exchange went and what the caller got.
Call(op, id, body, res) ==
    [op |-> op, id |-> id, body |-> body, exchange |-> res.exchange,
     result |-> IF res.exc # "" THEN "raised"
                ELSE IF IsNone(res.ret) THEN "None" ELSE "json"]
IsPut(call) == call.op = "set_recurring_transfer"

\* StarlingAPI._get_balance_data
get_balance_data(b, outcome) == wrapper(outcome, ServerBalance(b))

\* StarlingAPI.get_savings_goals
savings_goal_list(data) ==
    IF data.exc = "" /\ Truthy(data.ret)
    THEN [data EXCEPT !.ret = DictGet(@, "savingsGoalList")]
    ELSE [data EXCEPT !.ret = None]

get_savings_goals(b, outcome) == savings_goal_list(wrapper(outcome, ServerGoals(b)))

\* StarlingAPI.get_recurring_transfer
get_recurring_transfer(b, savings_goal_id, outcome) ==
    wrapper(outcome, ServerTransfer(b, savings_goal_id))

\* StarlingAPI.set_recurring_transfer: the bank echoes the configuration.
set_recurring_transfer(b, savings_goal_id, data, outcome) ==
    wrapper(outcome, Http200(data))

\* ---------------------------------------------------------- Application
\* What a method leaves behind: the goal list, the exception it raised ("" when
\* it returned), the API calls it issued and the lines it printed.
Result(spaces, exc, calls, printed) ==
    [spaces |-> spaces, exc |-> exc, calls |-> calls, printed |-> printed]

Raise(acc, exc) == [acc EXCEPT !.exc = exc]
Printed(acc, lines) == [acc EXCEPT !.printed = @ \o lines]

\* Application.refresh_spaces, the loop from goals[i] on: acc is the Result so
\* far, rtOutcome[i] how the recurring-transfer fetch of the i-th goal goes.
RECURSIVE refresh_loop(_, _, _, _, _)

\* self.spaces.append(savings_space); the next goal.
refresh_append(b, goals, i, rtOutcome, acc, space) ==
    refresh_loop(b, goals, i + 1, rtOutcome,
                 [acc EXCEPT !.spaces = Append(@, space)])

\* savings_space.recurringTransfer = RecurringTransfer.model_validate(...)
refresh_attach(b, goals, i, rtOutcome, acc, space, rt) ==
    IF ~rt.ok THEN Raise(acc, "ValidationError")
    ELSE refresh_append(b, goals, i, rtOutcome, acc,
                        [space EXCEPT !.recurringTransfer = rt.val])

\* After transform_childs_class(recurring_transfer, "currencyAndAmount", Amount).
refresh_amount(b, goals, i, rtOutcome, acc, space, t2) ==
    refresh_attach(b, goals, i, rtOutcome, Printed(acc, t2.printed), space,
                   RecurringTransfer_model_validate(t2.parent))

\* After transform_childs_class(recurring_transfer, "recurrenceRule", RecurrenceRule).
refresh_rule(b, goals, i, rtOutcome, acc, space, t1) ==
    refresh_amount(b, goals, i, rtOutcome, Printed(acc, t1.printed), space,
        transform_childs_class(t1.parent, "currencyAndAmount", "Amount"))

\* After self.api.get_recurring_transfer(...): `if recurring_transfer:`.
refresh_fetched(b, goals, i, rtOutcome, acc, space, fetched) ==
    IF fetched.exc # "" THEN Raise(acc, fetched.exc)
    ELSE IF ~Truthy(fetched.ret)
    THEN refresh_append(b, goals, i, rtOutcome, acc, space)
    ELSE refresh_rule(b, goals, i, rtOutcome, acc, space,
             transform_childs_class(fetched.ret, "recurrenceRule", "RecurrenceRule"))

\* recurring_transfer = self.api.get_recurring_transfer(savings_space.savingsGoalUid)
refresh_fetch(b, goals, i, rtOutcome, acc, space, fetched) ==
    refresh_fetched(b, goals, i, rtOutcome,
        [acc EXCEPT
           !.calls = Append(@, Call("get_recurring_transfer", space.savingsGoalUid,
                                    None, fetched)),
           !.printed = @ \o fetched.printed],
        space, fetched)

\* After savings_space = SavingsSpace.model_validate(goal).
refresh_space(b, goals, i, rtOutcome, acc, savings_space) ==
    IF ~savings_space.ok THEN Raise(acc, "ValidationError")
    ELSE refresh_fetch(b, goals, i, rtOutcome, acc, savings_space.val,
             get_recurring_transfer(b, savings_space.val.savingsGoalUid, rtOutcome[i]))

\* After totalSaved = Amount.model_validate(goal.get("totalSaved")).
refresh_total_saved(b, goals, i, rtOutcome, acc, totalSaved) ==
    IF ~totalSaved.ok THEN Raise(acc, "ValidationError")
    ELSE refresh_space(b, goals, i, rtOutcome, acc,
             SavingsSpace_model_validate(DictSet(goals[i], "totalSaved", totalSaved.val)))

refresh_loop(b, goals, i, rtOutcome, acc) ==
    IF i > Len(goals) \/ acc.exc # "" THEN acc
    ELSE refresh_total_saved(b, goals, i, rtOutcome, acc,
             Amount_model_validate(DictGet(goals[i], "totalSaved")))

\* refresh_spaces after savings_goals = self.api.get_savings_goals():
\* iterating over None raises TypeError.
refresh_goals(b, spaces, rtOutcome, savings_goals) ==
    IF savings_goals.exc # "" \/ savings_goals.ret.t # "list"
    THEN Result(spaces,
                IF savings_goals.exc # "" THEN savings_goals.exc ELSE "TypeError",
                <<Call("get_savings_goals", "", None, savings_goals)>>, savings_goals.printed)
    ELSE refresh_loop(b, savings_goals.ret.v, 1, rtOutcome,
             Result(spaces, "", <<Call("get_savings_goals", "", None, savings_goals)>>,
                    savings_goals.printed))

\* Application.refresh_spaces on the goal list `spaces`: goalsOutcome is how
\* the goal-list fetch goes. The goals fetched are appended to self.spaces.
refresh_spaces(b, spaces, goalsOutcome, rtOutcome) ==
    refresh_goals(b, spaces, rtOutcome, get_savings_goals(b, goalsOutcome))

\* _refresh_spaces_if_needed without its check: it refreshes on every access.
refresh_spaces_always(b, spaces, goalsOutcome, rtOutcome) ==
    [refresh_spaces(b, spaces, goalsOutcome, rtOutcome)
       EXCEPT !.printed = <<Line("Refreshing savings goals...", "")>> \o @]

\* Application._refresh_spaces_if_needed
refresh_spaces_if_needed(b, spaces, goalsOutcome, rtOutcome) ==
    IF spaces = <<>>
    THEN [refresh_spaces(b, spaces, goalsOutcome, rtOutcome)
            EXCEPT !.printed = <<Line("Refreshing savings goals...", "")>> \o @]
    ELSE Result(spaces, "", <<>>, <<>>)

\* calculate_waterfall_total with the filter ending the sum: it stops at the
\* first goal without a recurring transfer instead of passing over it.
RECURSIVE calculate_waterfall_total_stops(_)
calculate_waterfall_total_stops(spaces) ==
    IF spaces = <<>> THEN 0
    ELSE IF Truthy(Head(spaces).recurringTransfer)
    THEN Head(spaces).recurringTransfer.currencyAndAmount.minorUnits
         + calculate_waterfall_total_stops(Tail(spaces))
    ELSE 0

\* Application.calculate_waterfall_total: the running sum over the goals in
\* list order, a goal counted when its recurringTransfer is set.
RECURSIVE calculate_waterfall_total(_)
calculate_waterfall_total(spaces) ==
    IF spaces = <<>> THEN 0
    ELSE (IF Truthy(Head(spaces).recurringTransfer)
          THEN Head(spaces).recurringTransfer.currencyAndAmount.minorUnits
          ELSE 0) + calculate_waterfall_total(Tail(spaces))

\* Application.execute_waterfall, the write loop from spaces[i] on:
\* putOutcome[k] is how the k-th update call of the loop goes.
RECURSIVE waterfall_loop(_, _, _, _)

\* After self.api.set_recurring_transfer(...): its result is not looked at,
\* what it raises ends the loop.
waterfall_sent(b, i, putOutcome, acc, space, body, put) ==
    waterfall_loop(b, i + 1, putOutcome,
        [acc EXCEPT
           !.printed = Append(@, Line("Distributing", space.name)) \o put.printed,
           !.calls = Append(@, Call("set_recurring_transfer", space.savingsGoalUid,
                                    body, put)),
           !.exc = put.exc])

\* print("Distributing ..."); self.api.set_recurring_transfer(uid, model_dump())
waterfall_put(b, i, putOutcome, acc, space, body) ==
    waterfall_sent(b, i, putOutcome, acc, space, body,
        set_recurring_transfer(b, space.savingsGoalUid, body,
                               putOutcome[Len(SelectSeq(acc.calls, IsPut)) + 1]))

\* The body of the loop for one goal: the else belongs to `if transfer_amount > 0`.
waterfall_space(b, i, putOutcome, acc, space) ==
    IF Truthy(space.recurringTransfer)
    THEN IF space.recurringTransfer.currencyAndAmount.minorUnits > 0
         THEN waterfall_put(b, i, putOutcome, acc, space,
                            RecurringTransfer_model_dump(space.recurringTransfer))
         ELSE waterfall_loop(b, i + 1, putOutcome,
                  Printed(acc, <<Line("No recurring transfer set for", space.name)>>))
    ELSE waterfall_loop(b, i + 1, putOutcome, acc)

waterfall_loop(b, i, putOutcome, acc) ==
    IF acc.exc # "" THEN acc
    ELSE IF i > Len(acc.spaces)
    THEN Printed(acc, <<Line("Waterfall process completed.", "")>>)
    ELSE waterfall_space(b, i, putOutcome, acc, acc.spaces[i])

\* execute_waterfall's checks with the balance compared by <=: a balance equal
\* to the total is refused.
waterfall_checks_strict(b, balance, putOutcome, r, total_recurring) ==
    IF total_recurring = 0
    THEN Printed(r, <<Line("No recurring payments found. Nothing to distribute.", "")>>)
    ELSE IF balance.minorUnits <= total_recurring
    THEN Printed(r, <<Line("Insufficient balance to distribute.", "")>>)
    ELSE waterfall_loop(b, 1, putOutcome,
             Printed(r, <<Line("Starting waterfall process...", "")>>))

\* execute_waterfall's checks on the total, once it is computed.
waterfall_checks(b, balance, putOutcome, r, total_recurring) ==
    IF total_recurring = 0
    THEN Printed(r, <<Line("No recurring payments found. Nothing to distribute.", "")>>)
    ELSE IF balance.minorUnits < total_recurring
    THEN Printed(r, <<Line("Insufficient balance to distribute.", "")>>)
    ELSE waterfall_loop(b, 1, putOutcome,
             Printed(r, <<Line("Starting waterfall process...", "")>>))

\* execute_waterfall after self.spaces = self._refresh_spaces_if_needed().
waterfall_refreshed(b, balance, putOutcome, r) ==
    IF r.exc # "" THEN r
    ELSE IF r.spaces = <<>>
    THEN Printed(r, <<Line("No savings goals found.", "")>>)
    ELSE waterfall_checks(b, balance, putOutcome, r, calculate_waterfall_total(r.spaces))

\* Application.execute_waterfall
execute_waterfall(b, balance, spaces, goalsOutcome, rtOutcome, putOutcome) ==
    waterfall_refreshed(b, balance, putOutcome,
        refresh_spaces_if_needed(b, spaces, goalsOutcome, rtOutcome))

\* Application.__init__ after the balance is validated: self.spaces = [];
\* self.refresh_spaces().
construct_spaces(b, goalsOutcome, rtOutcome, data, amount) ==
    IF ~amount.ok
    THEN [balance |-> None,
          r |-> Result(<<>>, "ValidationError",
                       <<Call("get_balance", "", None, data)>>, data.printed)]
    ELSE [balance |-> amount.val,
          r |-> [refresh_spaces(b, <<>>, goalsOutcome, rtOutcome) EXCEPT
                   !.calls = <<Call("get_balance", "", None, data)>> \o @,
                   !.printed = data.printed \o @]]

\* Application.__init__ after self.api._get_balance_data(): the result is
\* subscripted without a guard.
construct_balance(b, goalsOutcome, rtOutcome, data) ==
    IF data.exc # "" \/ ~IsDict(data.ret)
    THEN [balance |-> None,
          r |-> Result(<<>>, IF data.exc # "" THEN data.exc ELSE "TypeError",
                       <<Call("get_balance", "", None, data)>>, data.printed)]
    ELSE IF "effectiveBalance" \notin DOMAIN data.ret.v
    THEN [balance |-> None,
          r |-> Result(<<>>, "KeyError",
                       <<Call("get_balance", "", None, data)>>, data.printed)]
    ELSE construct_spaces(b, goalsOutcome, rtOutcome, data,
             Amount_model_validate(data.ret.v["effectiveBalance"]))

\* Application.__init__
construct(b, balOutcome, goalsOutcome, rtOutcome) ==
    construct_balance(b, goalsOutcome, rtOutcome, get_balance_data(b, balOutcome))

\* What a report prints for one goal: its balance (print_savings_goals), or
\* its next date and amount when it has a recurring transfer
\* (print_recurring_transfers).
Row(table, goal) ==
    Line(IF table = "balances" THEN "balance"
         ELSE IF Truthy(goal.recurringTransfer) THEN "next date and amount"
         ELSE "No recurring transfer",
         goal.name)

Rows(table, spaces) == [i \in 1..Len(spaces) |-> Row(table, spaces[i])]

\* A report after self.spaces = self._refresh_spaces_if_needed().
report(table, r) ==
    IF r.exc # "" THEN r
    ELSE IF r.spaces = <<>>
    THEN Printed(r, <<Line("No savings goals found.", "")>>)
    ELSE Printed(r, Rows(table, r.spaces))

\* Application.print_savings_goals
print_savings_goals(b, spaces, goalsOutcome, rtOutcome) ==
    report("balances", refresh_spaces_if_needed(b, spaces, goalsOutcome, rtOutcome))

\* Application.print_recurring_transfers
print_recurring_transfers(b, spaces, goalsOutcome, rtOutcome) ==
    report("transfers", refresh_spaces_if_needed(b, spaces, goalsOutcome, rtOutcome))

\* ------------------------------------------------------- the state machine
VARIABLES
    bank,       \* what the bank holds (fixed during a run)
    pc,         \* where the program is: "new" before Application(...), then the
                \* step of run() that comes next, "done", "aborted" or "crashed"
    balance,    \* Application.balance (None before construction)
    spaces,     \* Application.spaces
    calls,      \* the HTTP calls issued so far, in order
    console,    \* the lines printed so far, in order
    raised,     \* the exception that ended the program ("" when none)
    refreshed,  \* how the last refresh_spaces call that returned went (history)
    ncalls      \* direct calls of refresh_spaces made by a client (SpecCalls)

vars == <<bank, pc, balance, spaces, calls, console, raised, refreshed, ncalls>>

Init ==
    /\ bank \in Banks
    /\ pc = "new"
    /\ balance = None
    /\ spaces = <<>>
    /\ calls = <<>>
    /\ console = <<>>
    /\ raised = ""
    /\ refreshed = None
    /\ ncalls = 0

\* How the HTTP exchanges of one method call can go. An exchange that is never
\* made (the method does not refresh, the goal does not validate, an earlier
\* exchange already ended the program) has no outcome to choose: it is "ok".
Malformed(i) == bank.goals[i].shape \in {"noname", "nosaved"}

GoalsOutcomes(needed) == IF needed THEN Outcomes ELSE {"ok"}

RtOutcomes(needed, goalsOutcome) ==
    {f \in [1..Len(bank.goals) -> Outcomes] :
        \A i \in DOMAIN f :
            f[i] # "ok" =>
                /\ needed /\ goalsOutcome = "ok" /\ ~Malformed(i)
                /\ \A j \in 1..(i - 1) : f[j] # "network_error" /\ ~Malformed(j)}

\* The update calls execute_waterfall can issue: one for each goal in memory
\* with a positive amount, or for each goal of the bank when it refreshes.
Positive(space) ==
    Truthy(space.recurringTransfer)
    /\ space.recurringTransfer.currencyAndAmount.minorUnits > 0
MaxPuts ==
    IF spaces = <<>> THEN Len(bank.goals) ELSE Len(SelectSeq(spaces, Positive))
PutOutcomes ==
    {f \in [1..MaxPuts -> Outcomes] :
        \A i \in DOMAIN f :
            f[i] # "ok" => \A j \in 1..(i - 1) : f[j] # "network_error"}

\* The effect of a method that left Result r, the program going on at `next`
\* when it returned; `called` tells whether the method called refresh_spaces.
Finish(r, next, called, goalsOutcome, rtOutcome) ==
    /\ spaces' = r.spaces
    /\ calls' = calls \o r.calls
    /\ console' = console \o r.printed
    /\ pc' = IF r.exc = "" THEN next ELSE "crashed"
    /\ raised' = r.exc
    /\ refreshed' = IF called /\ r.exc = ""
                    THEN [goals |-> goalsOutcome, rt |-> rtOutcome]
                    ELSE refreshed

\* The effect of Application(...) that left c.
Constructed(c, goalsOutcome, rtOutcome) ==
    /\ balance' = c.balance
    /\ Finish(c.r, "print_balance", c.balance # None, goalsOutcome, rtOutcome)

\* app = Application(api_token, account_uid)
Construct ==
    /\ pc = "new"
    /\ \E balOutcome \in Outcomes :
       \E goalsOutcome \in GoalsOutcomes(balOutcome = "ok") :
       \E rtOutcome \in RtOutcomes(balOutcome = "ok", goalsOutcome) :
         Constructed(construct(bank, balOutcome, goalsOutcome, rtOutcome),
                     goalsOutcome, rtOutcome)
    /\ UNCHANGED <<bank, ncalls>>

\* run(): self.print_balance()
PrintBalance ==
    /\ pc = "print_balance"
    /\ pc' = "print_savings_goals"
    /\ console' = Append(console, Line("Main balance:", ""))
    /\ UNCHANGED <<bank, balance, spaces, calls, raised, refreshed, ncalls>>

\* run(): self.print_savings_goals()
PrintSavingsGoals ==
    /\ pc = "print_savings_goals"
    /\ \E goalsOutcome \in GoalsOutcomes(spaces = <<>>) :
       \E rtOutcome \in RtOutcomes(spaces = <<>>, goalsOutcome) :
         Finish(print_savings_goals(bank, spaces, goalsOutcome, rtOutcome),
                "print_recurring_transfers", spaces = <<>>, goalsOutcome, rtOutcome)
    /\ UNCHANGED <<bank, balance, ncalls>>

\* run(): self.print_recurring_transfers()
PrintRecurringTransfers ==
    /\ pc = "print_recurring_transfers"
    /\ \E goalsOutcome \in GoalsOutcomes(spaces = <<>>) :
       \E rtOutcome \in RtOutcomes(spaces = <<>>, goalsOutcome) :
         Finish(print_recurring_transfers(bank, spaces, goalsOutcome, rtOutcome),
                "print_waterfall_total", spaces = <<>>, goalsOutcome, rtOutcome)
    /\ UNCHANGED <<bank, balance, ncalls>>

\* run(): self.print_waterfall_total()
PrintWaterfallTotal ==
    /\ pc = "print_waterfall_total"
    /\ pc' = "prompt"
    /\ console' = Append(console, Line("Total recurring payments:", ""))
    /\ UNCHANGED <<bank, balance, spaces, calls, raised, refreshed, ncalls>>

\* run(): the prompt; "y" goes on to execute_waterfall, anything else aborts.
Prompt ==
    /\ pc = "prompt"
    /\ \E user_input \in {"y", "n"} :
         IF user_input = "y"
         THEN pc' = "execute_waterfall" /\ console' = console
         ELSE /\ pc' = "aborted"
              /\ console' = Append(console, Line("Waterfall process aborted.", ""))
    /\ UNCHANGED <<bank, balance, spaces, calls, raised, refreshed, ncalls>>

\* run(): self.execute_waterfall()
ExecuteWaterfall ==
    /\ pc = "execute_waterfall"
    /\ \E goalsOutcome \in GoalsOutcomes(spaces = <<>>) :
       \E rtOutcome \in RtOutcomes(spaces = <<>>, goalsOutcome) :
       \E putOutcome \in PutOutcomes :
         Finish(execute_waterfall(bank, balance, spaces, goalsOutcome, rtOutcome,
                                  putOutcome),
                "done", spaces = <<>>, goalsOutcome, rtOutcome)
    /\ UNCHANGED <<bank, balance, ncalls>>

\* A client calls app.refresh_spaces() itself, between construction and run().
CallRefreshSpaces ==
    /\ pc = "print_balance"
    /\ ncalls < MaxCalls
    /\ ncalls' = ncalls + 1
    /\ \E goalsOutcome \in Outcomes :
       \E rtOutcome \in RtOutcomes(TRUE, goalsOutcome) :
         Finish(refresh_spaces(bank, spaces, goalsOutcome, rtOutcome),
                "print_balance", TRUE, goalsOutcome, rtOutcome)
    /\ UNCHANGED <<bank, balance>>

Next ==
    \/ Construct
    \/ PrintBalance
    \/ PrintSavingsGoals
    \/ PrintRecurringTransfers
    \/ PrintWaterfallTotal
    \/ Prompt
    \/ ExecuteWaterfall

\* The program: construction, then run().
Spec == Init /\ [][Next]_vars

NextCalls == Next \/ CallRefreshSpaces

\* The program with a client that also calls refresh_spaces directly.
SpecCalls == Init /\ [][NextCalls]_vars

\* ------------------------------------------------------------- the claims
Puts == SelectSeq(calls, IsPut)
IsGoalsFetch(call) == call.op = "get_savings_goals"
GoalFetches == Len(SelectSeq(calls, IsGoalsFetch))
Said(msg) == \E k \in 1..Len(console) : console[k].msg = msg
SaidOf(msg, name) ==
    \E k \in 1..Len(console) : console[k].msg = msg /\ console[k].name = name
PutsFor(uid) == Cardinality({k \in 1..Len(Puts) : Puts[k].id = uid})

\* execute_waterfall got past its checks (it may since have ended or crashed).
Started == Said("Starting waterfall process...")
\* The distribution is permitted for the balance and the goals in memory.
Permitted ==
    /\ balance # None
    /\ calculate_waterfall_total(spaces) # 0
    /\ balance.minorUnits >= calculate_waterfall_total(spaces)

\* C1: no update call is issued when the balance is below the total of the
\* recurring transfers or when that total is 0, and for every other balance
\* and goal set execute_waterfall goes on to its write loop.
C1_DistributionGate ==
    /\ Puts # <<>> => Started
    /\ Started => Permitted
    /\ (pc = "done" /\ Permitted) => Started

\* C1 witnesses: execute_waterfall returned having refused for a balance below
\* the total, with no update call issued.
C1_Witness ==
    /\ pc = "done"
    /\ calculate_waterfall_total(spaces) > balance.minorUnits
    /\ Puts = <<>>
    /\ Said("Insufficient balance to distribute.")

\* C2: every call through the api_request wrapper gives its caller the parsed
\* JSON body on a 2xx answer and None on a network failure or another status,
\* and never raises.
C2_ApiRequestNeverRaises ==
    \A k \in 1..Len(calls) :
        /\ calls[k].result # "raised"
        /\ calls[k].exchange = "2xx" => calls[k].result = "json"
        /\ calls[k].exchange # "2xx" => calls[k].result = "None"

\* The last HTTP call the program made was a read of the goal list or of a
\* goal's recurring transfer that the server answered with an error status.
\* (A read that fails at the connection is the wrapper's case, C2.)
LastReadFailed ==
    /\ calls # <<>>
    /\ calls[Len(calls)].op \in {"get_savings_goals", "get_recurring_transfer"}
    /\ calls[Len(calls)].exchange = "non-2xx"

\* C3: refresh_spaces never aborts because a read failed: after a failed fetch
\* of the goal list the program goes on (with no goals), after a failed fetch
\* of one goal's recurring transfer it goes on with that goal in the goal set
\* without a recurring transfer.
C3_RefreshSurvivesFailedRead ==
    LastReadFailed =>
        /\ pc # "crashed"
        /\ calls[Len(calls)].op = "get_savings_goals" => spaces = <<>>
        /\ calls[Len(calls)].op = "get_recurring_transfer" =>
              \E k \in 1..Len(spaces) :
                  /\ spaces[k].savingsGoalUid = calls[Len(calls)].id
                  /\ spaces[k].recurringTransfer = None

\* The amount the k-th goal in memory contributes: that of its recurring
\* transfer when one is attached.
Contribution(k) ==
    IF spaces[k].recurringTransfer = None THEN 0
    ELSE spaces[k].recurringTransfer.currencyAndAmount.minorUnits

\* The sum of the contributions of a set of goals, taken in no order.
RECURSIVE SumOver(_)
SumOver(S) ==
    IF S = {} THEN 0
    ELSE LET k == CHOOSE x \in S : TRUE IN Contribution(k) + SumOver(S \ {k})

Permuted(p) == [k \in 1..Len(spaces) |-> spaces[p[k]]]

\* C4: calculate_waterfall_total() is the sum of the amounts of exactly the
\* goals with a recurring transfer attached, whatever the order of the goals,
\* and 0 when there is no goal or no goal has a recurring transfer.
C4_TotalIsSumOfAttached ==
    /\ calculate_waterfall_total(spaces) = SumOver(1..Len(spaces))
    /\ \A p \in Permutations(1..Len(spaces)) :
           calculate_waterfall_total(Permuted(p)) = calculate_waterfall_total(spaces)
    /\ (\A k \in 1..Len(spaces) : spaces[k].recurringTransfer = None)
           => calculate_waterfall_total(spaces) = 0

\* C4 witnesses: a goal without a recurring transfer ahead of one with a
\* positive amount in the goal list.
C4_Witness ==
    \E j, k \in 1..Len(spaces) :
        /\ j < k
        /\ spaces[j].recurringTransfer = None
        /\ spaces[k].recurringTransfer # None
        /\ calculate_waterfall_total(spaces) > 0

\* C5: in a permitted distribution every goal with a recurring transfer of
\* amount 0 and every goal with no recurring transfer gets no update call and
\* is reported as skipped; a goal with a positive amount gets exactly one.
C5_SkippedGoalsReported ==
    (pc = "done" /\ Started) =>
        \A k \in 1..Len(spaces) :
            IF Positive(spaces[k])
            THEN PutsFor(spaces[k].savingsGoalUid) = 1
            ELSE /\ PutsFor(spaces[k].savingsGoalUid) = 0
                 /\ SaidOf("No recurring transfer set for", spaces[k].name)

\* The payload the bank holds for the recurring transfer of goal uid: what
\* refresh_spaces fetched for it.
Fetched(uid) == ServerTransfer(bank, uid).json

\* Every field of JSON object p is in JSON object q with the same value.
Preserves(p, q) == \A f \in DOMAIN p.v : f \in DOMAIN q.v /\ q.v[f] = p.v[f]

Carries(p, q, f, dflt) ==
    /\ f \in DOMAIN q.v
    /\ q.v[f] = IF f \in DOMAIN p.v THEN p.v[f] ELSE dflt

\* q's minorUnits is p's as an integer: the same integer, or the integer a
\* string of digits stands for.
CarriesAmount(p, q) ==
    /\ "minorUnits" \in DOMAIN q.v
    /\ q.v["minorUnits"].t = "int"
    /\ p.v["minorUnits"].t = "int" => q.v["minorUnits"] = p.v["minorUnits"]
    /\ p.v["minorUnits"].t = "str" =>
          q.v["minorUnits"].v = DigitStrings[p.v["minorUnits"].v]

C7_ValidationFailureIsAbsorbed ==
    ~(/\ raised = "ValidationError"
      /\ calls[Len(calls)].op \in {"get_savings_goals", "get_recurring_transfer"})

\* What one call of refresh_spaces on an empty goal list gives when the
\* exchanges go as they went in the last call that returned.
SingleRefresh == refresh_spaces(bank, <<>>, refreshed.goals, refreshed.rt).spaces

\* C8: after any number of consecutive calls of refresh_spaces against an
\* unchanged bank the goal set is the one a single call produces, each fetched
\* goal in it once.
C8_RefreshIdempotent ==
    (refreshed # None /\ pc # "crashed") =>
        /\ spaces = SingleRefresh
        /\ \A j, k \in 1..Len(spaces) :
               spaces[j].savingsGoalUid = spaces[k].savingsGoalUid => j = k

\* C9 as stated: once Application(...) has populated the goal list, no later
\* step fetches the goal list again, whatever list the bank returned.
C9_GoalsFetchedOnce ==
    [][pc # "new" => GoalFetches' = GoalFetches]_vars

\* C9 amended: once the goal list in memory is not empty no later step of the
\* run fetches the goal list again; while it is empty (the bank returned no
\* goals) each of print_savings_goals, print_recurring_transfers and
\* execute_waterfall fetches it again.
C9_GoalsFetchedOnceUnlessEmpty ==
    [][/\ (pc # "new" /\ spaces # <<>>) => GoalFetches' = GoalFetches
       /\ (pc \in {"print_savings_goals", "print_recurring_transfers",
                   "execute_waterfall"} /\ spaces = <<>>)
             => GoalFetches' = GoalFetches + 1]_vars

\* C9 witnesses: a run that went through every access with goals in memory
\* and fetched the goal list once.
C9_Witness ==
    /\ pc = "done"
    /\ spaces # <<>>
    /\ GoalFetches = 1

\* C10: in a permitted distribution a failed update call does not stop the
\* loop: an update call is attempted for every goal with a positive amount
\* and the run reaches its completed state.
C10_FailedUpdateDoesNotStopLoop ==
    Started =>
        /\ pc = "done"
        /\ Said("Waterfall process completed.")
        /\ \A k \in 1..Len(spaces) :
               Positive(spaces[k]) => PutsFor(spaces[k].savingsGoalUid) = 1

====
